---- MODULE Spec2Model ----
(***************************************************************************)
(* tulir/zerozap: a zapcore.Core that feeds zap entries to a zerolog       *)
(* logger.  The model covers the core (Enabled, With, Check, Write, Sync), *)
(* the field encoder fieldsToEvent, and the array and object proxies.      *)
(*                                                                         *)
(* A zerolog accumulator (Event, Array, Context) is a byte buffer; it is   *)
(* modelled as a sequence of tokens, one per key/value the backend         *)
(* appends, with explicit open and close tokens for nested objects and     *)
(* arrays.  A nil *zerolog.Event (a disabled event) is live = FALSE: every *)
(* method of it is a no-op.                                                *)
(***************************************************************************)
EXTENDS Integers, Sequences, FiniteSets, TLC

VARIABLES
    z,          \* the cores: z[c].Logger is the wrapped zerolog.Logger of core c
    hist,       \* history: for each core, the core it was derived from and the fields given
    callers,    \* With calls in progress, one slot per concurrent caller
    out,        \* the lines the backend writer has received, in order
    flags,      \* CopyTime, CopyStack, CopyCaller
    last,       \* the last completed call: its arguments and what it returned
    arg         \* the inputs of the run (entry, field lists), drawn by Init

vars == <<z, hist, callers, out, flags, last, arg>>

(***************************************************************************)
(* Bounds of the model                                                     *)
(***************************************************************************)
MaxLines == 2       \* lines written in one run
MaxCores == 3       \* cores alive in one run (the root and those With derives)
MaxFields == 2      \* length of the generated field lists

Callers == {"A", "B"}

(***************************************************************************)
(* Levels                                                                  *)
(***************************************************************************)
\* zerolog's Level constants (DebugLevel = iota ... Disabled, TraceLevel = -1)
zerolog ==
    [TraceLevel |-> 0 - 1, DebugLevel |-> 0, InfoLevel |-> 1, WarnLevel |-> 2,
     ErrorLevel |-> 3, FatalLevel |-> 4, PanicLevel |-> 5, NoLevel |-> 6,
     Disabled |-> 7]

ZerologLevels == (0 - 1) .. 7

\* the seven zapcore levels, by name
ZapLevels ==
    {"DebugLevel", "InfoLevel", "WarnLevel", "ErrorLevel", "DPanicLevel",
     "PanicLevel", "FatalLevel"}

\* a mutation of levelMap: dpanic mapped like error
levelMapDPanicError ==
    [DebugLevel |-> zerolog.DebugLevel, InfoLevel |-> zerolog.InfoLevel,
     WarnLevel |-> zerolog.WarnLevel, ErrorLevel |-> zerolog.ErrorLevel,
     DPanicLevel |-> zerolog.ErrorLevel, PanicLevel |-> zerolog.PanicLevel,
     FatalLevel |-> zerolog.FatalLevel]

levelMap ==
    [DebugLevel |-> zerolog.DebugLevel, InfoLevel |-> zerolog.InfoLevel,
     WarnLevel |-> zerolog.WarnLevel, ErrorLevel |-> zerolog.ErrorLevel,
     DPanicLevel |-> zerolog.PanicLevel, PanicLevel |-> zerolog.PanicLevel,
     FatalLevel |-> zerolog.FatalLevel]

\* levelMap[level]: a Go map read, the zero value (DebugLevel) for a missing key
levelMapAt(level) ==
    IF level \in DOMAIN levelMap THEN levelMap[level] ELSE zerolog.DebugLevel

\* zerolog.LevelFieldMarshalFunc: the text of the level key
LevelString(l) ==
    CASE l = zerolog.TraceLevel -> "trace"
      [] l = zerolog.DebugLevel -> "debug"
      [] l = zerolog.InfoLevel -> "info"
      [] l = zerolog.WarnLevel -> "warn"
      [] l = zerolog.ErrorLevel -> "error"
      [] l = zerolog.FatalLevel -> "fatal"
      [] l = zerolog.PanicLevel -> "panic"
      [] l = zerolog.Disabled -> "disabled"
      [] OTHER -> ""

(***************************************************************************)
(* Tokens, accumulators, errors                                            *)
(***************************************************************************)
\* one thing appended to a buffer: t is its kind, k its key, s/i its value
Tok(t, k, s, i) == [t |-> t, k |-> k, s |-> s, i |-> i]

OpenObj(k) == Tok("{", k, "", 0)
CloseObj == Tok("}", "", "", 0)
OpenArr(k) == Tok("[", k, "", 0)
CloseArr == Tok("]", "", "", 0)

\* a nil *zerolog.Event
NilEvent == [live |-> FALSE, buf |-> <<>>]

\* zerolog.Dict(): a fresh sub-event, always live
Dict == [live |-> TRUE, buf |-> <<>>]

\* any chained setter of a *zerolog.Event: a no-op on a nil event
EvtAdd(evt, toks) == IF evt.live THEN [evt EXCEPT !.buf = @ \o toks] ELSE evt

\* zerolog's Event.Dict(key, dict): the sub-event is closed and attached under key
EvtDict(evt, key, sub) == EvtAdd(evt, <<OpenObj(key)>> \o sub.buf \o <<CloseObj>>)

NoErr == "nil"
ErrNestedArray == "zerolog doesn't support nested arrays"
ErrUnknownField == "unknown field type"
ErrCallback == "marshaler error"
PanicNamespace == "unsupported field type namespace"

\* one entry of the execution log of an encoding: what ran, in order
Ev(ev, key, err, n, m) == [ev |-> ev, key |-> key, err |-> err, n |-> n, m |-> m]

(***************************************************************************)
(* Marshalers.  A zapcore.ArrayMarshaler or ObjectMarshaler is caller code *)
(* that calls the encoder it is given; it is modelled as the list of calls *)
(* it makes (ops) and the error it returns when it reaches its end (ret).  *)
(* check tells whether the callback returns the error of a failing         *)
(* AppendArray/AppendObject/AddArray/AddObject at once (if err != nil      *)
(* { return err }) or drops it and goes on, as zapcore.Field.AddTo does.   *)
(***************************************************************************)
NoMarshaler == [ops |-> <<>>, ret |-> NoErr]

RECURSIVE arrayCallback(_, _, _, _)
RECURSIVE objectCallback(_, _, _, _)
RECURSIVE finishAll(_, _)

\* the result of an append that nests what the callback result r built
NestedArray(arr, r) ==
    [arr |-> arr \o <<OpenArr("")>> \o r.arr \o <<CloseArr>>,
     err |-> r.err, log |-> r.log]

\* a mutation of zeroArray.AppendArray: the commented-out body, which nests the array
zeroArray_AppendArrayNests(arr, marshaler, log) ==
    NestedArray(arr, arrayCallback(marshaler, 1, <<>>, log))

\* zeroArray.AppendArray
zeroArray_AppendArray(arr, marshaler, log) ==
    [arr |-> arr, err |-> ErrNestedArray, log |-> log]

\* what a proxy holds once the callback has returned r: err is the error kept
ProxyDone(name, r, err, n, m) ==
    [r EXCEPT !.err = err, !.log = Append(@, Ev(name, "", err, n, m))]

\* a mutation of arrayProxy.MarshalZerologArray: the callback's error is not kept
arrayProxy_DropsError(marshaler, arr, log) ==
    ProxyDone("arrayProxy", arrayCallback(marshaler, 1, arr, log), NoErr, Len(arr), 0)

\* ap.err = ap.arr.MarshalLogArray(...): the error kept is the one returned
KeepErr(name, r, n) == ProxyDone(name, r, r.err, n, 0)

\* arrayProxy.MarshalZerologArray: ap.err is what the callback returned
arrayProxy_MarshalZerologArray(marshaler, arr, log) ==
    KeepErr("arrayProxy", arrayCallback(marshaler, 1, arr, log), Len(arr))

\* one step of a finish closure: the sub-event is attached to its parent
Attach(top, sub, rest, log) ==
    finishAll([evt |-> EvtDict(top.parentEvt, top.key, sub), finish |-> rest],
              Append(log, Ev("finish", top.key, NoErr, Len(top.parentEvt.buf),
                             Len(rest))))

\* the finish closure of a zeroObject: attach the innermost namespace to its
\* parent, then run the previous finish
finishAll(zo, log) ==
    IF zo.finish = <<>> THEN [evt |-> zo.evt, log |-> log]
    ELSE Attach(zo.finish[Len(zo.finish)], zo.evt,
                SubSeq(zo.finish, 1, Len(zo.finish) - 1), log)

\* the end of objectProxy.MarshalZerologObject: if zo.finish != nil { zo.finish() }
Finished(f, err) == [evt |-> f.evt, err |-> err, log |-> f.log]

\* a mutation of the end of MarshalZerologObject: finish is not run when the
\* callback returned an error
ObjectDoneOnSuccess(r) ==
    IF r.err # NoErr THEN [evt |-> r.zo.evt, err |-> r.err, log |-> r.log]
    ELSE Finished(finishAll(r.zo, r.log), r.err)

ObjectDone(r) == Finished(finishAll(r.zo, r.log), r.err)

\* objectProxy.MarshalZerologObject: op.err is what the callback returned, and
\* the namespaces the callback opened are attached after it has returned
objectProxy_MarshalZerologObject(marshaler, evt, log) ==
    ObjectDone(KeepErr("objectProxy",
                   objectCallback(marshaler, 1, [evt |-> evt, finish |-> <<>>], log),
                   Len(evt.buf)))

\* the array r.arr written under key, as zerolog's Event.Array does
ArrayWritten(evt, key, r) ==
    [evt |-> EvtAdd(evt, <<OpenArr(key)>> \o r.arr \o <<CloseArr>>),
     err |-> r.err, log |-> r.log]

\* zerolog's Event.Array(key, ap) and the ap.err read after it: a nil event
\* never calls the marshaler
EventArray(evt, key, marshaler, log) ==
    IF ~evt.live THEN [evt |-> evt, err |-> NoErr, log |-> log]
    ELSE ArrayWritten(evt, key, arrayProxy_MarshalZerologArray(marshaler, <<>>, log))

\* the end marker zerolog appends after an object
ObjectClosed(r) == [r EXCEPT !.evt = EvtAdd(@, <<CloseObj>>)]

\* zerolog's Event.Object(key, op) and the op.err read after it: the object is
\* marshalled into the same event, between its begin and end markers
EventObject(evt, key, marshaler, log) ==
    IF ~evt.live THEN [evt |-> evt, err |-> NoErr, log |-> log]
    ELSE ObjectClosed(objectProxy_MarshalZerologObject(
                          marshaler, EvtAdd(evt, <<OpenObj(key)>>), log))

\* zerolog's Event.EmbedObject(op) and the op.err read after it
EventEmbedObject(evt, marshaler, log) ==
    IF ~evt.live THEN [evt |-> evt, err |-> NoErr, log |-> log]
    ELSE objectProxy_MarshalZerologObject(marshaler, evt, log)

\* the object r.evt appended as an element, as zerolog's Array.Object does
ObjectAppended(arr, r) ==
    [arr |-> arr \o <<OpenObj("")>> \o r.evt.buf \o <<CloseObj>>,
     err |-> r.err, log |-> r.log]

\* zeroArray.AppendObject: zerolog's Array.Object marshals into a fresh Dict
zeroArray_AppendObject(arr, marshaler, log) ==
    ObjectAppended(arr, objectProxy_MarshalZerologObject(marshaler, Dict, log))

\* z.evt after a call that returned r
Added(zo, r) == [zo |-> [zo EXCEPT !.evt = r.evt], err |-> r.err, log |-> r.log]

\* zeroObject.AddArray
zeroObject_AddArray(zo, key, marshaler, log) ==
    Added(zo, EventArray(zo.evt, key, marshaler, log))

\* zeroObject.AddObject
zeroObject_AddObject(zo, key, marshaler, log) ==
    Added(zo, EventObject(zo.evt, key, marshaler, log))

\* zeroObject.OpenNamespace: later adds go to a fresh sub-event; the finish
\* closure keeps the parent event and the key
zeroObject_OpenNamespace(zo, key) ==
    [evt |-> Dict,
     finish |-> Append(zo.finish, [parentEvt |-> zo.evt, key |-> key])]

\* the log entry of a call on a zeroArray that returned r: the error it
\* returned and the length of the array before and after it
Observed(name, arr, r) ==
    [r EXCEPT !.log = Append(@, Ev(name, "", r.err, Len(arr), Len(r.arr)))]

\* one call of an ArrayMarshaler on the zeroArray it was given
arrayCall(o, arr, log) ==
    CASE o.op = "AppendInt" ->
            [arr |-> Append(arr, Tok("int", "", "", o.i)), err |-> NoErr,
             log |-> Append(log, Ev("append", "", NoErr, Len(arr), Len(arr) + 1))]
      [] o.op = "AppendString" ->
            [arr |-> Append(arr, Tok("str", "", o.s, 0)), err |-> NoErr,
             log |-> Append(log, Ev("append", "", NoErr, Len(arr), Len(arr) + 1))]
      [] o.op = "AppendArray" ->
            Observed("AppendArray", arr, zeroArray_AppendArray(arr, o.m, log))
      [] o.op = "AppendObject" -> zeroArray_AppendObject(arr, o.m, log)

\* one call of an ObjectMarshaler on the zeroObject it was given
objectCall(o, zo, log) ==
    CASE o.op = "AddInt" ->
            [zo |-> [zo EXCEPT !.evt = EvtAdd(@, <<Tok("int", o.key, "", o.i)>>)],
             err |-> NoErr,
             log |-> Append(log, Ev("add", o.key, NoErr, Len(zo.evt.buf),
                                    Len(zo.evt.buf) + 1))]
      [] o.op = "OpenNamespace" ->
            [zo |-> zeroObject_OpenNamespace(zo, o.key), err |-> NoErr,
             log |-> Append(log, Ev("OpenNamespace", o.key, NoErr,
                                    Len(zo.finish), Len(zo.finish) + 1))]
      [] o.op = "AddArray" -> zeroObject_AddArray(zo, o.key, o.m, log)
      [] o.op = "AddObject" -> zeroObject_AddObject(zo, o.key, o.m, log)

\* whether the callback returns the error of its call o at once
Returns(o, err) == err # NoErr /\ "check" \in DOMAIN o /\ o.check

\* the callback returns: its error, and the place it returned from
Returned(r, err, i) == [r EXCEPT !.err = err, !.log = Append(@, Ev("return", "", err, i, 0))]

\* after the i-th call of an ArrayMarshaler returned r
arrayNext(m, i, r) ==
    IF Returns(m.ops[i], r.err) THEN Returned(r, r.err, i)
    ELSE arrayCallback(m, i + 1, r.arr, r.log)

\* the body of an ArrayMarshaler run against a zeroArray, from its i-th call on
arrayCallback(m, i, arr, log) ==
    IF i > Len(m.ops)
    THEN Returned([arr |-> arr, err |-> NoErr, log |-> log], m.ret, i)
    ELSE arrayNext(m, i, arrayCall(m.ops[i], arr, log))

\* after the i-th call of an ObjectMarshaler returned r
objectNext(m, i, r) ==
    IF Returns(m.ops[i], r.err) THEN Returned(r, r.err, i)
    ELSE objectCallback(m, i + 1, r.zo, r.log)

\* the body of an ObjectMarshaler run against a zeroObject, from its i-th call on
objectCallback(m, i, zo, log) ==
    IF i > Len(m.ops)
    THEN Returned([zo |-> zo, err |-> NoErr, log |-> log], m.ret, i)
    ELSE objectNext(m, i, objectCall(m.ops[i], zo, log))

(***************************************************************************)
(* Fields and entries                                                      *)
(***************************************************************************)
\* a zapcore.Field
Field(type, key, integer, string, interface) ==
    [Type |-> type, Key |-> key, Integer |-> integer, String |-> string,
     Interface |-> interface]

\* the field kinds whose value goes to one setter of the accumulator; the
\* other scalar kinds of the switch (binary, floats, durations, times, ...)
\* have the same shape
ScalarTypes == {"BoolType", "Int64Type", "StringType"}

\* the token a scalar field becomes
ScalarTok(f) ==
    CASE f.Type = "BoolType" ->
            Tok("bool", f.Key, "", IF f.Integer = 1 THEN 1 ELSE 0)
      [] f.Type = "Int64Type" -> Tok("int", f.Key, "", f.Integer)
      [] f.Type = "StringType" -> Tok("str", f.Key, f.String, 0)

\* a zapcore.Entry
Entry(level, message, stack, defined) ==
    [Level |-> level, Time |-> "t", Message |-> message, Stack |-> stack,
     Caller |-> [Defined |-> defined, File |-> "f.go", Line |-> 7]]

(***************************************************************************)
(* fieldsToEvent                                                           *)
(***************************************************************************)
RECURSIVE fieldsToEvent(_, _, _)

\* a mutation of the namespace case: the fields after the marker stay in evt
fieldsToEvent_NamespaceFlat(key, rest, evt, log) ==
    fieldsToEvent(rest, EvtAdd(evt, <<OpenObj(key), CloseObj>>),
                  Append(log, Ev("namespace", key, NoErr, 0, 0)))

\* evt.Dict(f.Key, subEvt), r being what encoding the rest into subEvt gave
DictAttached(key, evt, r) ==
    [evt |-> EvtDict(evt, key, r.evt), err |-> NoErr,
     log |-> Append(r.log, Ev("attach", key, NoErr, Len(evt.buf), 0))]

\* if err != nil { return err }; evt.Dict(f.Key, subEvt); return nil
NamespaceDone(key, evt, r) ==
    IF r.err # NoErr THEN [r EXCEPT !.evt = evt] ELSE DictAttached(key, evt, r)

\* case zapcore.NamespaceType of fieldsToEvent: the rest of the list is
\* encoded into a fresh Dict, which is attached under the key when it is done
fieldsToEvent_Namespace(key, rest, evt, log) ==
    NamespaceDone(key, evt,
        fieldsToEvent(rest, Dict, Append(log, Ev("namespace", key, NoErr, 0, 0))))

\* a mutation of the default case: the field is dropped and the loop goes on
fieldsToEvent_DefaultSkips(f, rest, evt, log) ==
    fieldsToEvent(rest, evt, log)

\* the default case of fieldsToEvent: an error is returned
fieldsToEvent_Default(f, rest, evt, log) ==
    [evt |-> evt, err |-> ErrUnknownField,
     log |-> Append(log, Ev("unknown", f.Key, ErrUnknownField, 0, 0))]

\* one case of the switch of fieldsToEvent, the namespace and default cases
\* apart: the field is handed to the event
fieldToEvent(f, evt, log) ==
    CASE f.Type = "ArrayMarshalerType" -> EventArray(evt, f.Key, f.Interface, log)
      [] f.Type = "ObjectMarshalerType" -> EventObject(evt, f.Key, f.Interface, log)
      [] f.Type = "InlineMarshalerType" -> EventEmbedObject(evt, f.Interface, log)
      [] f.Type \in ScalarTypes ->
            [evt |-> EvtAdd(evt, <<ScalarTok(f)>>), err |-> NoErr,
             log |-> Append(log, Ev("field", f.Key, NoErr, Len(evt.buf), 0))]
      [] f.Type = "SkipType" -> [evt |-> evt, err |-> NoErr, log |-> log]

KnownTypes ==
    ScalarTypes \cup {"ArrayMarshalerType", "ObjectMarshalerType",
                      "InlineMarshalerType", "SkipType", "NamespaceType"}

\* after one field gave r: a marshaler error returns at once
fieldsNext(rest, r) ==
    IF r.err # NoErr THEN r ELSE fieldsToEvent(rest, r.evt, r.log)

\* fieldsToEvent: the loop over the fields
fieldsToEvent(fields, evt, log) ==
    IF fields = <<>> THEN [evt |-> evt, err |-> NoErr, log |-> log]
    ELSE IF Head(fields).Type = "NamespaceType"
    THEN fieldsToEvent_Namespace(Head(fields).Key, Tail(fields), evt, log)
    ELSE IF Head(fields).Type \notin KnownTypes
    THEN fieldsToEvent_Default(Head(fields), Tail(fields), evt, log)
    ELSE fieldsNext(Tail(fields), fieldToEvent(Head(fields), evt, log))

(***************************************************************************)
(* zeroZap                                                                 *)
(***************************************************************************)
\* zerolog's Logger.should, for a logger with a writer and no sampler, and the
\* global level at its default
Should(logger, lvl) == ~(lvl < logger.level)

\* zerolog's Logger.WithLevel: nil for a level the logger filters; else a new
\* event that starts with the level key and the logger's context
WithLevel(logger, lvl) ==
    IF ~Should(logger, lvl) THEN NilEvent
    ELSE [live |-> TRUE,
          buf |-> <<Tok("str", "level", LevelString(lvl), 0)>> \o logger.context]

\* zerolog's Event.Msg: the lines written, none for a nil event; an empty
\* message adds no message key
Msg(evt, msg) ==
    IF ~evt.live THEN <<>>
    ELSE <<evt.buf \o (IF msg # "" THEN <<Tok("str", "message", msg, 0)>> ELSE <<>>)>>

\* a mutation of Enabled: strict comparison
zeroZap_EnabledStrict(logger, level) == logger.level < levelMapAt(level)

\* zeroZap.Enabled
zeroZap_Enabled(logger, level) == logger.level <= levelMapAt(level)

\* zeroZap.Check: ce.AddCore(ent, z) when the level is enabled
zeroZap_Check(c, logger, ent, ce) ==
    IF zeroZap_Enabled(logger, ent.Level) THEN Append(ce, c) ELSE ce

\* if CopyTime { evt.Time(zerolog.TimestampFieldName, entry.Time) }
CopiedTime(evt, entry, fl) ==
    IF fl.CopyTime THEN EvtAdd(evt, <<Tok("time", "time", entry.Time, 0)>>) ELSE evt

\* if entry.Stack != "" && CopyStack { evt.Str(zerolog.ErrorStackFieldName, entry.Stack) }
CopiedStack(evt, entry, fl) ==
    IF entry.Stack # "" /\ fl.CopyStack
    THEN EvtAdd(evt, <<Tok("str", "stack", entry.Stack, 0)>>) ELSE evt

\* if entry.Caller.Defined && CopyCaller { evt.Str(zerolog.CallerFieldName, ...) }
CopiedCaller(evt, entry, fl) ==
    IF entry.Caller.Defined /\ fl.CopyCaller
    THEN EvtAdd(evt, <<Tok("str", "caller", entry.Caller.File, entry.Caller.Line)>>)
    ELSE evt

\* if err != nil { return err }; evt.Msg(entry.Message); return nil
Written(r, entry) ==
    [err |-> r.err, evt |-> r.evt, log |-> r.log,
     lines |-> IF r.err # NoErr THEN <<>> ELSE Msg(r.evt, entry.Message)]

\* a mutation of Write: the caller is written before the stack
zeroZap_WriteCallerFirst(logger, entry, fields, fl) ==
    Written(fieldsToEvent(fields,
                CopiedStack(CopiedCaller(CopiedTime(
                    WithLevel(logger, levelMapAt(entry.Level)), entry, fl), entry, fl),
                    entry, fl),
                <<>>), entry)

\* evt.Msg(entry.Message) whatever fieldsToEvent returned
WrittenAnyway(r, entry) ==
    [err |-> r.err, evt |-> r.evt, log |-> r.log, lines |-> Msg(r.evt, entry.Message)]

\* a mutation of Write: the message is committed though a field failed
zeroZap_WriteEmitsOnError(logger, entry, fields, fl) ==
    WrittenAnyway(fieldsToEvent(fields,
                CopiedCaller(CopiedStack(CopiedTime(
                    WithLevel(logger, levelMapAt(entry.Level)), entry, fl), entry, fl),
                    entry, fl),
                <<>>), entry)

\* zeroZap.Write: what it returns (err), the event it built (evt), the lines
\* it handed to the writer (lines) and the log of the encoding (log)
zeroZap_Write(logger, entry, fields, fl) ==
    Written(fieldsToEvent(fields,
                CopiedCaller(CopiedStack(CopiedTime(
                    WithLevel(logger, levelMapAt(entry.Level)), entry, fl), entry, fl),
                    entry, fl),
                <<>>), entry)

RECURSIVE withFields(_, _, _)

\* a mutation of the namespace case of With: the marker is skipped
zeroZap_With_NamespaceSkips(f, rest, ctx, log) == withFields(rest, ctx, log)

\* case zapcore.NamespaceType of With: panic
zeroZap_With_Namespace(f, rest, ctx, log) ==
    [ctx |-> ctx, panic |-> PanicNamespace,
     log |-> Append(log, Ev("namespace", f.Key, PanicNamespace, 0, 0))]

\* the default case of With: panic
zeroZap_With_Default(f, rest, ctx, log) ==
    [ctx |-> ctx, panic |-> ErrUnknownField,
     log |-> Append(log, Ev("unknown", f.Key, ErrUnknownField, 0, 0))]

\* logWith.Array(f.Key, ap) and the ap.err read after it
ContextArray(ctx, key, r) ==
    [ctx |-> ctx \o <<OpenArr(key)>> \o r.arr \o <<CloseArr>>,
     panic |-> r.err, log |-> r.log]

\* logWith.Object(f.Key, op) or logWith.EmbedObject(op), and op.err: zerolog
\* encodes into a scratch event and appends its bytes to the context
ContextObject(ctx, r) == [ctx |-> ctx \o r.evt.buf, panic |-> r.err, log |-> r.log]

\* one case of the switch of With, the namespace and default cases apart:
\* the field is handed to the zerolog.Context, whose setters always run the
\* marshaler
fieldToContext(f, ctx, log) ==
    CASE f.Type = "ArrayMarshalerType" ->
            ContextArray(ctx, f.Key,
                arrayProxy_MarshalZerologArray(f.Interface, <<>>, log))
      [] f.Type = "ObjectMarshalerType" ->
            ContextObject(ctx, EventObject(Dict, f.Key, f.Interface, log))
      [] f.Type = "InlineMarshalerType" ->
            ContextObject(ctx, EventEmbedObject(Dict, f.Interface, log))
      [] f.Type \in ScalarTypes ->
            [ctx |-> Append(ctx, ScalarTok(f)), panic |-> NoErr,
             log |-> Append(log, Ev("field", f.Key, NoErr, Len(ctx), Len(ctx) + 1))]
      [] f.Type = "SkipType" -> [ctx |-> ctx, panic |-> NoErr, log |-> log]

\* after one field gave r: if ap.err != nil { panic(ap.err) }
withNext(rest, r) ==
    IF r.panic # NoErr THEN r ELSE withFields(rest, r.ctx, r.log)

\* the loop of With over the fields, on the context buffer of logWith
withFields(fields, ctx, log) ==
    IF fields = <<>> THEN [ctx |-> ctx, panic |-> NoErr, log |-> log]
    ELSE IF Head(fields).Type = "NamespaceType"
    THEN zeroZap_With_Namespace(Head(fields), Tail(fields), ctx, log)
    ELSE IF Head(fields).Type \notin KnownTypes
    THEN zeroZap_With_Default(Head(fields), Tail(fields), ctx, log)
    ELSE withNext(Tail(fields), fieldToContext(Head(fields), ctx, log))

\* a mutation of the end of With: the receiver's logger is replaced as well
zeroZap_With_ReturnInPlace(zs, recv, logger) ==
    Append([zs EXCEPT ![recv].Logger = logger], [Logger |-> logger])

\* the end of With: a new zeroZap around logWith.Logger()
zeroZap_With_Return(zs, recv, logger) == Append(zs, [Logger |-> logger])

(***************************************************************************)
(* State and actions                                                       *)
(***************************************************************************)
Cores == 1 .. Len(z)

IdleCaller ==
    [pc |-> "idle", recv |-> 0, fields |-> <<>>,
     logWith |-> [level |-> 0, context |-> <<>>]]

InFlight == Cardinality({k \in Callers : callers[k].pc # "idle"})

LastNone ==
    [op |-> "none", caller |-> "", core |-> 0, entry |-> Entry("", "", "", FALSE),
     fields |-> <<>>, enabled |-> FALSE, cein |-> <<>>, ce |-> <<>>, err |-> NoErr,
     panic |-> NoErr, evt |-> NilEvent, lines |-> <<>>, log |-> <<>>,
     newcore |-> 0, ctx |-> <<>>]

\* New(log): one core around the given logger
New(log) == <<[Logger |-> log]>>

InitState(log, fl, a) ==
    /\ z = New(log)
    /\ hist = <<[parent |-> 0, fields |-> <<>>]>>
    /\ callers = [k \in Callers |-> IdleCaller]
    /\ out = <<>>
    /\ flags = fl
    /\ last = LastNone
    /\ arg = a

\* z.Enabled(level)
Enabled(c, level) ==
    /\ c \in Cores
    /\ last' = [LastNone EXCEPT !.op = "Enabled", !.core = c,
                                !.entry = Entry(level, "", "", FALSE),
                                !.enabled = zeroZap_Enabled(z[c].Logger, level)]
    /\ UNCHANGED <<z, hist, callers, out, flags, arg>>

\* z.Check(ent, ce)
Check(c, ent, ce) ==
    /\ c \in Cores
    /\ last' = [LastNone EXCEPT !.op = "Check", !.core = c, !.entry = ent,
                                !.cein = ce,
                                !.ce = zeroZap_Check(c, z[c].Logger, ent, ce)]
    /\ UNCHANGED <<z, hist, callers, out, flags, arg>>

\* z.With(fields), first step: logWith := z.Logger.With(), a copy of the
\* receiver's logger and context
WithCall(k, c, fields) ==
    /\ c \in Cores
    /\ callers[k].pc = "idle"
    /\ Len(z) + InFlight < MaxCores
    /\ callers' = [callers EXCEPT ![k] = [pc |-> "loop", recv |-> c,
                                          fields |-> fields,
                                          logWith |-> z[c].Logger]]
    /\ UNCHANGED <<z, hist, out, flags, last, arg>>

\* the end of With once the loop gave r: the panic goes to the caller, or
\* &zeroZap{Logger: logWith.Logger()} is returned
WithDone(k, cl, r) ==
    /\ z' = IF r.panic = NoErr
            THEN zeroZap_With_Return(z, cl.recv,
                     [level |-> cl.logWith.level, context |-> r.ctx])
            ELSE z
    /\ hist' = IF r.panic = NoErr
               THEN Append(hist, [parent |-> cl.recv, fields |-> cl.fields])
               ELSE hist
    /\ last' = [LastNone EXCEPT !.op = "With", !.caller = k, !.core = cl.recv,
                                !.fields = cl.fields, !.panic = r.panic,
                                !.ctx = r.ctx, !.log = r.log,
                                !.newcore = IF r.panic = NoErr THEN Len(z) + 1 ELSE 0]

\* z.With(fields), the loop and the return: a panic, or a new core
WithReturn(k) ==
    /\ callers[k].pc = "loop"
    /\ WithDone(k, callers[k],
                withFields(callers[k].fields, callers[k].logWith.context, <<>>))
    /\ callers' = [callers EXCEPT ![k] = IdleCaller]
    /\ UNCHANGED <<out, flags, arg>>

\* the effect of a Write that gave r: its lines reach the writer
WriteDone(c, entry, fields, r) ==
    /\ out' = out \o r.lines
    /\ last' = [LastNone EXCEPT !.op = "Write", !.core = c, !.entry = entry,
                                !.fields = fields, !.err = r.err, !.evt = r.evt,
                                !.lines = r.lines, !.log = r.log]

\* z.Write(entry, fields)
Write(c, entry, fields) ==
    /\ c \in Cores
    /\ Len(out) < MaxLines
    /\ WriteDone(c, entry, fields, zeroZap_Write(z[c].Logger, entry, fields, flags))
    /\ UNCHANGED <<z, hist, callers, flags, arg>>

\* z.Sync()
Sync(c) ==
    /\ c \in Cores
    /\ last' = [LastNone EXCEPT !.op = "Sync", !.core = c, !.err = NoErr]
    /\ UNCHANGED <<z, hist, callers, out, flags, arg>>

(***************************************************************************)
(* Inputs                                                                  *)
(***************************************************************************)
Int64(key, v) == Field("Int64Type", key, v, "", NoMarshaler)
String(key, v) == Field("StringType", key, 0, v, NoMarshaler)
Bool(key, v) == Field("BoolType", key, IF v THEN 1 ELSE 0, "", NoMarshaler)
Namespace(key) == Field("NamespaceType", key, 0, "", NoMarshaler)
Skip == Field("SkipType", "", 0, "", NoMarshaler)
Unknown(key) == Field("UnknownType", key, 0, "", NoMarshaler)
Array(key, m) == Field("ArrayMarshalerType", key, 0, "", m)
Object(key, m) == Field("ObjectMarshalerType", key, 0, "", m)
Inline(m) == Field("InlineMarshalerType", "", 0, "", m)

AppendInt(v) == [op |-> "AppendInt", i |-> v]
AppendString(v) == [op |-> "AppendString", s |-> v]
AppendArrayOp(m, check) == [op |-> "AppendArray", m |-> m, check |-> check]
AppendObjectOp(m, check) == [op |-> "AppendObject", m |-> m, check |-> check]
AddInt(key, v) == [op |-> "AddInt", key |-> key, i |-> v]
AddArrayOp(key, m, check) == [op |-> "AddArray", key |-> key, m |-> m, check |-> check]
AddObjectOp(key, m, check) == [op |-> "AddObject", key |-> key, m |-> m, check |-> check]
OpenNamespaceOp(key) == [op |-> "OpenNamespace", key |-> key]
Marshaler(ops, ret) == [ops |-> ops, ret |-> ret]

\* the field lists of TestZeroZap
TestNormal == <<Int64("int", 42), String("str", "meow"), Bool("true", FALSE)>>
TestNamespaced ==
    <<Namespace("meow??"), Int64("subfield", 1), Namespace("meow!!"),
      Int64("subsubfield", 2)>>
TestArray ==
    <<Array("meow", Marshaler(<<AppendString("me"), AppendString("o"),
                                AppendString("w")>>, NoErr))>>

\* array marshalers: plain; appending an array and returning its error;
\* appending an array and dropping its error; appending an object
mInts == Marshaler(<<AppendInt(1), AppendInt(2)>>, NoErr)
mNested(check) ==
    Marshaler(<<AppendInt(1), AppendArrayOp(mInts, check), AppendInt(2)>>, NoErr)
\* object marshalers: with two namespaces; failing on its own; adding a
\* failing array and returning or dropping its error
mSpaces ==
    Marshaler(<<AddInt("x", 1), OpenNamespaceOp("n1"), AddInt("y", 2),
                OpenNamespaceOp("n2"), AddInt("w", 3)>>, NoErr)
mFails == Marshaler(<<AddInt("x", 1)>>, ErrCallback)
mDeep(check) ==
    Marshaler(<<AddInt("x", 1), AddArrayOp("in", mNested(TRUE), check),
                AddInt("y", 2)>>, NoErr)
mOfObjects(check) ==
    Marshaler(<<AppendObjectOp(mSpaces, TRUE), AppendObjectOp(mDeep(TRUE), check),
                AppendInt(9)>>, NoErr)
mNestedObject ==
    Marshaler(<<AddObjectOp("o", mFails, TRUE), AddInt("z", 5)>>, NoErr)
\* object marshalers: opening a namespace and failing on its own; opening a
\* namespace and adding, inside it, an object that opens its own
mSpacesFails ==
    Marshaler(<<AddInt("x", 1), OpenNamespaceOp("n1"), AddInt("y", 2)>>, ErrCallback)
mNestedSpaces ==
    Marshaler(<<OpenNamespaceOp("p"), AddObjectOp("o", mSpaces, TRUE),
                AddInt("z", 5)>>, NoErr)

\* the fields the generated lists are made of
EncFields ==
    {Int64("a", 1), Namespace("ns"), Namespace("n2"), Unknown("u"), Skip,
     Array("arr", mNested(TRUE)), Array("arr", mNested(FALSE)),
     Object("obj", mSpaces), Object("obj", mDeep(FALSE)), Inline(mFails)}

SeqsUpTo(S, n) == UNION {[1 .. k -> S] : k \in 0 .. n}

EncLists ==
    SeqsUpTo(EncFields, MaxFields)
        \cup {TestNormal, TestNamespaced, TestArray,
              <<Array("arr", mOfObjects(TRUE))>>, <<Array("arr", mOfObjects(FALSE))>>,
              <<Object("obj", mNestedObject)>>, <<Object("obj", mDeep(TRUE)), Int64("a", 1)>>,
              <<Inline(mSpaces), Int64("a", 1)>>,
              <<Object("obj", mSpacesFails)>>, <<Object("obj", mNestedSpaces)>>}

AllFlags == [CopyTime : BOOLEAN, CopyStack : BOOLEAN, CopyCaller : BOOLEAN]
DefaultFlags == [CopyTime |-> TRUE, CopyStack |-> TRUE, CopyCaller |-> TRUE]
NoFlags == [CopyTime |-> FALSE, CopyStack |-> FALSE, CopyCaller |-> FALSE]

LoggerAt(level) == [level |-> level, context |-> <<>>]

Args(ent, fields, wa, wb) ==
    [ent |-> ent, fields |-> fields, wfields |-> [A |-> wa, B |-> wb]]

(***************************************************************************)
(* Specifications                                                          *)
(***************************************************************************)
\* With and Write from several callers on the cores of one run
Init ==
    \E fields \in {<<>>, <<Int64("x", 5)>>}, fl \in {DefaultFlags, NoFlags},
       wb \in {<<String("b", "bb"), Array("c", mInts)>>,
               <<Int64("q", 3), Namespace("ns")>>} :
        InitState(LoggerAt(zerolog.InfoLevel), fl,
                  Args(Entry("InfoLevel", "msg", "", FALSE), fields,
                       <<Int64("a", 1)>>, wb))

Next ==
    \/ \E k \in Callers, c \in Cores : WithCall(k, c, arg.wfields[k])
    \/ \E k \in Callers : WithReturn(k)
    \/ \E c \in Cores : Write(c, arg.ent, arg.fields)

Spec == Init /\ [][Next]_vars

\* every minimum level of the wrapped logger against every zap level
InitLevel ==
    \E min \in ZerologLevels, level \in ZapLevels :
        InitState(LoggerAt(min), DefaultFlags,
                  Args(Entry(level, "msg", "", FALSE), <<>>, <<>>, <<>>))

NextLevel ==
    \/ Enabled(1, arg.ent.Level)
    \/ \E ce \in {<<>>, <<1>>} : Check(1, arg.ent, ce)
    \/ Write(1, arg.ent, arg.fields)
    \/ Sync(1)

SpecLevel == InitLevel /\ [][NextLevel]_vars

\* the keys of a line: every setting of the three flags against entries with
\* and without a stack, a caller and a message, on a root and a derived core
InitKeys ==
    \E fl \in AllFlags, level \in {"DebugLevel", "InfoLevel"},
       msg \in {"", "Hello, world!"}, stack \in {"", "trace"}, defined \in BOOLEAN,
       fields \in {<<>>, TestNormal} :
        InitState(LoggerAt(zerolog.InfoLevel), fl,
                  Args(Entry(level, msg, stack, defined), fields,
                       <<String("ctx", "c")>>, <<>>))

NextKeys ==
    \/ \E c \in Cores : Write(c, arg.ent, arg.fields)
    \/ WithCall("A", 1, arg.wfields["A"])
    \/ WithReturn("A")

SpecKeys == InitKeys /\ [][NextKeys]_vars

\* the encoder: one field list given to Write and to With, on a logger that
\* creates the event and on one that filters it
InitEnc ==
    \E min \in {zerolog.InfoLevel, zerolog.WarnLevel}, fields \in EncLists :
        InitState(LoggerAt(min), NoFlags,
                  Args(Entry("InfoLevel", "msg", "", FALSE), fields, fields, <<>>))

NextEnc ==
    \/ Write(1, arg.ent, arg.fields)
    \/ WithCall("A", 1, arg.wfields["A"])
    \/ WithReturn("A")

SpecEnc == InitEnc /\ [][NextEnc]_vars

(***************************************************************************)
(* Properties: levels                                                      *)
(***************************************************************************)
\* the order debug < info < warn < error < fatal < panic, dpanic with panic
SeverityRank ==
    [DebugLevel |-> 0, InfoLevel |-> 1, WarnLevel |-> 2, ErrorLevel |-> 3,
     FatalLevel |-> 4, DPanicLevel |-> 5, PanicLevel |-> 5]

\* the order debug < info < warn < error < panic < fatal, dpanic with panic
ClaimedRank ==
    [DebugLevel |-> 0, InfoLevel |-> 1, WarnLevel |-> 2, ErrorLevel |-> 3,
     DPanicLevel |-> 4, PanicLevel |-> 4, FatalLevel |-> 5]

\* the place of the configured minimum l in the order rank, by its name:
\* trace is below every zap level, NoLevel and Disabled are above all of them
MinRank(rank, l) ==
    CASE LevelString(l) = "trace" -> 0 - 1
      [] LevelString(l) = "debug" -> rank.DebugLevel
      [] LevelString(l) = "info" -> rank.InfoLevel
      [] LevelString(l) = "warn" -> rank.WarnLevel
      [] LevelString(l) = "error" -> rank.ErrorLevel
      [] LevelString(l) = "fatal" -> rank.FatalLevel
      [] LevelString(l) = "panic" -> rank.PanicLevel
      [] OTHER -> 6

AtOrAbove(rank, logger, level) == rank[level] >= MinRank(rank, logger.level)

\* Enabled, Check and Write follow the order rank: Enabled(level) is true
\* exactly at or above the minimum, and then it is true of every level that
\* is at least as severe; Check adds the core exactly then and returns the
\* checked entry unchanged otherwise; Write emits one line then and nothing
\* otherwise
LevelOrder(rank) ==
    /\ last.op = "Enabled" =>
          /\ last.enabled = AtOrAbove(rank, z[last.core].Logger, last.entry.Level)
          /\ \A b \in ZapLevels :
                (last.enabled /\ rank[b] >= rank[last.entry.Level])
                    => zeroZap_Enabled(z[last.core].Logger, b)
    /\ last.op = "Check" =>
          last.ce = IF AtOrAbove(rank, z[last.core].Logger, last.entry.Level)
                    THEN Append(last.cein, last.core) ELSE last.cein
    /\ last.op = "Write" =>
          Len(last.lines) = IF AtOrAbove(rank, z[last.core].Logger, last.entry.Level)
                            THEN 1 ELSE 0

\* C1 (as amended): the seven levels are ordered debug < info < warn < error
\* < fatal < panic, with dpanic ranking with panic; Enabled is monotone in
\* that order, Check adds the core exactly when the entry's level is at or
\* above the configured minimum, and a Write below the minimum emits nothing.
C1_LevelOrder == LevelOrder(SeverityRank)

\* C1 as stated: the same, in the order debug < info < warn < error < panic
\* < fatal.
C1_ClaimedOrder == LevelOrder(ClaimedRank)

\* a Check of a panic entry on a logger whose minimum is fatal: the core is added
C1_Witness ==
    /\ last.op = "Check"
    /\ z[last.core].Logger.level = zerolog.FatalLevel
    /\ last.entry.Level = "PanicLevel"
    /\ last.ce = Append(last.cein, last.core)

\* the target of each zap level, by the name zerolog writes for it
TargetOf ==
    [DebugLevel |-> "debug", InfoLevel |-> "info", WarnLevel |-> "warn",
     ErrorLevel |-> "error", DPanicLevel |-> "panic", PanicLevel |-> "panic",
     FatalLevel |-> "fatal"]

TargetLevel(level) ==
    CHOOSE v \in ZerologLevels : LevelString(v) = TargetOf[level]

\* C7: the level mapping is total on the seven zap levels (debug to debug,
\* info to info, warn to warn, error to error, dpanic to panic, panic to
\* panic, fatal to fatal); Enabled(level) is true exactly when the logger's
\* minimum is at most the mapped level, and Write creates its event at that
\* same mapped level.
C7_LevelMapping ==
    /\ DOMAIN levelMap = ZapLevels
    /\ \A l \in ZapLevels : LevelString(levelMap[l]) = TargetOf[l]
    /\ last.op = "Enabled" =>
          last.enabled = (z[last.core].Logger.level <= TargetLevel(last.entry.Level))
    /\ last.op = "Write" =>
          /\ last.evt.live = (z[last.core].Logger.level <= TargetLevel(last.entry.Level))
          /\ last.evt.live =>
                /\ last.evt.buf[1] = Tok("str", "level", TargetOf[last.entry.Level], 0)
                /\ last.lines # <<>>
                /\ last.lines[1][1] = last.evt.buf[1]

\* a dpanic entry written at the panic level
C7_Witness ==
    /\ last.op = "Write"
    /\ last.entry.Level = "DPanicLevel"
    /\ last.lines # <<>>
    /\ last.lines[1][1].s = "panic"

(***************************************************************************)
(* Properties: the keys of a line                                          *)
(***************************************************************************)
Keys(line) == [i \in 1 .. Len(line) |-> line[i].k]

FieldKeys(fields) == [i \in 1 .. Len(fields) |-> fields[i].Key]

RECURSIVE ContextKeys(_)
\* the keys of the fields given to the With calls that derived core c, the
\* oldest first
ContextKeys(c) ==
    IF hist[c].parent = 0 THEN <<>>
    ELSE ContextKeys(hist[c].parent) \o FieldKeys(hist[c].fields)

\* level, the context, time, stack, caller, the fields, message
ExpectedKeys(entry, fields, fl, context, message) ==
    <<"level">> \o context
        \o (IF fl.CopyTime THEN <<"time">> ELSE <<>>)
        \o (IF fl.CopyStack /\ entry.Stack # "" THEN <<"stack">> ELSE <<>>)
        \o (IF fl.CopyCaller /\ entry.Caller.Defined THEN <<"caller">> ELSE <<>>)
        \o FieldKeys(fields)
        \o (IF message THEN <<"message">> ELSE <<>>)

\* C2 (as amended): a Write that returns nil on an entry whose level the
\* wrapped logger lets through emits exactly one line, whose keys are, in
\* order: level; the keys of the logger's context (the fields of the With
\* calls that derived the core); the timestamp if CopyTime; the stack if
\* CopyStack and the entry has one; the caller if CopyCaller and the entry
\* has one; the user fields in the order given; and last the message, unless
\* the message is empty.  A Write on a level the logger filters returns nil
\* and emits nothing.
C2_KeyOrder ==
    (last.op = "Write" /\ last.err = NoErr) =>
        IF z[last.core].Logger.level > TargetLevel(last.entry.Level)
        THEN last.lines = <<>>
        ELSE /\ Len(last.lines) = 1
             /\ out # <<>> /\ out[Len(out)] = last.lines[1]
             /\ Keys(last.lines[1]) =
                    ExpectedKeys(last.entry, last.fields, flags,
                                 ContextKeys(last.core), last.entry.Message # "")

\* C2 as stated: a Write that returns nil emits exactly one line, whose keys
\* are level, the timestamp if CopyTime, the stack if CopyStack and the entry
\* has one, the caller if CopyCaller and the entry has one, the user fields
\* in the order given, and the message last; with the three flags off and no
\* fields, level and message only.
C2_ClaimedKeyOrder ==
    (last.op = "Write" /\ last.err = NoErr) =>
        /\ Len(last.lines) = 1
        /\ Keys(last.lines[1]) = ExpectedKeys(last.entry, last.fields, flags, <<>>, TRUE)

\* a line with every optional key, written through a derived core
C2_Witness ==
    /\ last.op = "Write"
    /\ hist[last.core].parent # 0
    /\ flags = DefaultFlags
    /\ last.entry.Stack # "" /\ last.entry.Caller.Defined /\ last.entry.Message # ""
    /\ last.fields = TestNormal
    /\ Len(last.lines) = 1

(***************************************************************************)
(* Properties: With                                                        *)
(***************************************************************************)
RECURSIVE ExpectedContext(_)
\* the context of core c: the fields given along its own chain of With calls
ExpectedContext(c) ==
    IF hist[c].parent = 0 THEN <<>>
    ELSE withFields(hist[c].fields, ExpectedContext(hist[c].parent), <<>>).ctx

RECURSIVE ChainKeys(_)
ChainKeys(c) ==
    IF hist[c].parent = 0 THEN {}
    ELSE ChainKeys(hist[c].parent) \cup {hist[c].fields[i].Key : i \in 1 .. Len(hist[c].fields)}

\* the line a logger with the context ctx writes
LineOf(level, ctx, entry, fields, fl) ==
    zeroZap_Write([level |-> level, context |-> ctx], entry, fields, fl).lines

\* C6: With returns a distinct logger and leaves the receiver unchanged: in
\* every state reached by With and Write calls from several callers, the
\* context of each core is exactly the fields given along its own chain of
\* With calls (so a parent, or a sibling, holds none of the fields given to
\* the With that derived another core), and a line written through a core
\* carries exactly those fields.
C6_WithLeavesReceiver ==
    /\ \A c \in Cores :
          /\ z[c].Logger.context = ExpectedContext(c)
          /\ z[c].Logger.level = z[1].Logger.level
    /\ last.op = "With" =>
          IF last.panic = NoErr
          THEN /\ last.newcore = Len(z)
               /\ last.newcore # last.core
               /\ hist[last.newcore] = [parent |-> last.core, fields |-> last.fields]
          ELSE last.newcore = 0
    /\ (last.op = "Write" /\ last.lines # <<>>) =>
          /\ last.lines = LineOf(z[last.core].Logger.level, ExpectedContext(last.core),
                                 last.entry, last.fields, flags)
          /\ \A i \in 1 .. Len(last.lines[1]) :
                last.lines[1][i].k \in
                    {"level", "time", "message", ""} \cup ChainKeys(last.core)
                        \cup {last.fields[j].Key : j \in 1 .. Len(last.fields)}

\* the root writes a line after two cores were derived from it with
\* different fields
C6_Witness ==
    /\ Len(z) = 3
    /\ hist[2].parent = 1 /\ hist[3].parent = 1
    /\ hist[2].fields # hist[3].fields
    /\ last.op = "Write" /\ last.core = 1
    /\ Len(last.lines) = 1

(***************************************************************************)
(* Properties: the encoder                                                 *)
(***************************************************************************)
RECURSIVE ReturnFrom(_, _)

\* what the i-th call of a callback gives back to it
CallError(o) ==
    CASE o.op = "AppendArray" -> ErrNestedArray
      [] o.op \in {"AppendObject", "AddArray", "AddObject"} -> ReturnFrom(o.m, 1)
      [] OTHER -> NoErr

\* the error a marshaler callback returns, from its i-th call on: the first
\* error of a call that it checks, else its own
ReturnFrom(m, i) ==
    IF i > Len(m.ops) THEN m.ret
    ELSE IF Returns(m.ops[i], CallError(m.ops[i])) THEN CallError(m.ops[i])
    ELSE ReturnFrom(m, i + 1)

MarshalerTypes == {"ArrayMarshalerType", "ObjectMarshalerType", "InlineMarshalerType"}

\* the error of one field: an unknown kind, or what its callback returns
FieldError(f) ==
    IF f.Type \notin KnownTypes THEN ErrUnknownField
    ELSE IF f.Type \in MarshalerTypes THEN ReturnFrom(f.Interface, 1)
    ELSE NoErr

RECURSIVE FirstReported(_, _)
\* the first error reported to a Write, in field order; on a nil event (live
\* false) the callbacks of the fields before the first namespace marker do
\* not run
FirstReported(fields, live) ==
    IF fields = <<>> THEN NoErr
    ELSE IF Head(fields).Type = "NamespaceType" THEN FirstReported(Tail(fields), TRUE)
    ELSE IF FieldError(Head(fields)) # NoErr
            /\ (live \/ Head(fields).Type \notin MarshalerTypes)
    THEN FieldError(Head(fields))
    ELSE FirstReported(Tail(fields), live)

RECURSIVE FirstPanic(_)
\* the first failure of a With, in field order
FirstPanic(fields) ==
    IF fields = <<>> THEN NoErr
    ELSE IF Head(fields).Type = "NamespaceType" THEN PanicNamespace
    ELSE IF FieldError(Head(fields)) # NoErr THEN FieldError(Head(fields))
    ELSE FirstPanic(Tail(fields))

\* whether the logger lets the entry's level through
Live(c, entry) == z[c].Logger.level <= TargetLevel(entry.Level)

IsMarker(f) == f.Type = "NamespaceType"

MarkerKeys(fields) == FieldKeys(SelectSeq(fields, IsMarker))

Reverse(s) == [i \in 1 .. Len(s) |-> s[Len(s) + 1 - i]]

RECURSIVE Concat(_)
Concat(ss) == IF ss = <<>> THEN <<>> ELSE Head(ss) \o Concat(Tail(ss))

\* what one field is in a line: a marker opens an object, any other field is
\* what it is when encoded on its own
Rendered(f) ==
    IF IsMarker(f) THEN <<OpenObj(f.Key)>> ELSE fieldToEvent(f, Dict, <<>>).evt.buf

\* the fields in order, each object opened by a marker closed at the very end
NestedFields(fields) ==
    Concat([i \in 1 .. Len(fields) |-> Rendered(fields[i])])
        \o [i \in 1 .. Len(MarkerKeys(fields)) |-> CloseObj]

LogKeys(log, ev) ==
    FieldKeys([i \in 1 .. Len(SelectSeq(log, LAMBDA e : e.ev = ev)) |->
                  [Key |-> SelectSeq(log, LAMBDA e : e.ev = ev)[i].key]])

\* C3: a namespace marker in the list given to Write nests the rest of the
\* list: every field after a marker is written inside the object of the most
\* recent marker and never at an outer level, a later marker opens its object
\* inside the previous one, and each inner object is attached to its parent
\* before the outer one is attached; the list meow??, subfield=1, meow!!,
\* subsubfield=2 gives {"meow??":{"subfield":1,"meow!!":{"subsubfield":2}}}.
C3_NamespaceNesting ==
    (last.op = "Write" /\ FirstReported(last.fields, TRUE) = NoErr) =>
        /\ last.err = NoErr
        /\ LogKeys(last.log, "namespace") = MarkerKeys(last.fields)
        /\ LogKeys(last.log, "attach") = Reverse(MarkerKeys(last.fields))
        /\ Live(last.core, last.entry) =>
              /\ last.lines =
                    << <<Tok("str", "level", "info", 0)>> \o NestedFields(last.fields)
                           \o <<Tok("str", "message", last.entry.Message, 0)>> >>
              /\ last.fields = TestNamespaced =>
                    last.lines[1] =
                        <<Tok("str", "level", "info", 0),
                          OpenObj("meow??"), Tok("int", "subfield", "", 1),
                          OpenObj("meow!!"), Tok("int", "subsubfield", "", 2),
                          CloseObj, CloseObj,
                          Tok("str", "message", last.entry.Message, 0)>>

\* the namespaced list of the test, written
C3_Witness ==
    /\ last.op = "Write"
    /\ last.fields = TestNamespaced
    /\ Len(last.lines) = 1

AllTokens ==
    last.evt.buf \o last.ctx \o Concat(last.lines)

\* C5: appending a nested array inside an array marshaler always fails:
\* every AppendArray call made through the array proxy, whatever the
\* marshaler and whether or not the logger's level lets the event through,
\* returns the error "zerolog doesn't support nested arrays" and leaves the
\* array as it was; no array is ever written as an element of an array.
C5_AppendArrayFails ==
    /\ \A i \in 1 .. Len(last.log) :
          last.log[i].ev = "AppendArray" =>
              /\ last.log[i].err = ErrNestedArray
              /\ last.log[i].n = last.log[i].m
    /\ \A i \in 1 .. Len(AllTokens) :
          ~(AllTokens[i].t = "[" /\ AllTokens[i].k = "")

\* an AppendArray call during a Write on a logger that filters the entry
C5_Witness ==
    /\ last.op = "Write"
    /\ ~Live(last.core, last.entry)
    /\ \E i \in 1 .. Len(last.log) : last.log[i].ev = "AppendArray"
    /\ last.err = ErrNestedArray

\* the first entry of the log that holds an error, 0 if none does
FirstErrorAt(log) ==
    IF \E i \in 1 .. Len(log) : log[i].err # NoErr
    THEN CHOOSE i \in 1 .. Len(log) :
            /\ log[i].err # NoErr
            /\ \A j \in 1 .. (i - 1) : log[j].err = NoErr
    ELSE 0

\* C4 (as amended): Write returns the first error reported to it in field
\* order (a field of unknown kind, or the error an array, object or inline
\* marshaler callback returned, at top level or after a namespace marker)
\* and then emits no line; it returns nil and emits the line when no error
\* is reported, also when a call made inside a callback failed and the
\* callback did not return that error.
C4_FirstReportedError ==
    last.op = "Write" =>
        /\ last.err = FirstReported(last.fields, Live(last.core, last.entry))
        /\ last.err # NoErr => last.lines = <<>>
        /\ (last.err = NoErr /\ Live(last.core, last.entry)) =>
              /\ Len(last.lines) = 1
              /\ out # <<>> /\ out[Len(out)] = last.lines[1]

\* C4 as stated: once any field, at top level, inside a namespace or inside
\* a nested array or object callback, has produced an error, Write returns
\* the first such error and emits no line.
C4_ClaimedAnyError ==
    (last.op = "Write" /\ FirstErrorAt(last.log) # 0) =>
        /\ last.err = last.log[FirstErrorAt(last.log)].err
        /\ last.lines = <<>>

\* a Write whose array callback, after a namespace marker, returned the error
\* of a nested array: the error is returned and no line is emitted
C4_Witness ==
    /\ last.op = "Write"
    /\ Live(last.core, last.entry)
    /\ Len(last.fields) = 2
    /\ last.fields[1].Type = "NamespaceType"
    /\ last.fields[2].Type = "ArrayMarshalerType"
    /\ last.err = ErrNestedArray
    /\ last.lines = <<>>

HasMarker(fields) == \E i \in 1 .. Len(fields) : IsMarker(fields[i])

FirstMarker(fields) ==
    CHOOSE i \in 1 .. Len(fields) :
        IsMarker(fields[i]) /\ \A j \in 1 .. (i - 1) : ~IsMarker(fields[j])

\* whether some field of the list other than a marker fails
OtherFails(fields, live) == FirstReported(fields, live) # NoErr

Reaction(op, r) ==
    CASE op = "Write" -> IF r.err # NoErr THEN "error" ELSE "ok"
      [] op = "With" -> IF r.panic # NoErr THEN "abort" ELSE "ok"

\* whether the first field of the list that fails, first being its failure,
\* is a field of unknown kind
ReachesUnknown(fields, first) ==
    /\ first = ErrUnknownField
    /\ \E i \in 1 .. Len(fields) : fields[i].Type \notin KnownTypes

\* what Write does with the list With was given
WriteOf(c, entry, fields) == zeroZap_Write(z[c].Logger, entry, fields, flags)

\* C9 (as amended): a field whose kind is outside the known enumeration is
\* never dropped silently, but With and Write do not react in the same way:
\* With panics and returns no derived logger, Write returns the error
\* "unknown field type" to its caller and emits no line.
C9_UnknownKind ==
    /\ (last.op = "With" /\ ReachesUnknown(last.fields, FirstPanic(last.fields))) =>
          /\ Reaction("With", last) = "abort"
          /\ last.panic = ErrUnknownField
          /\ last.newcore = 0
          /\ Reaction("Write", WriteOf(last.core, arg.ent, last.fields)) = "error"
    /\ (last.op = "Write" /\ ReachesUnknown(last.fields, FirstReported(last.fields,
                                                Live(last.core, last.entry)))) =>
          /\ Reaction("Write", last) = "error"
          /\ last.err = ErrUnknownField
          /\ last.lines = <<>>

\* C9 as stated: With and Write react to a field of unknown kind in the same
\* way, both returning an error or both aborting.
C9_ClaimedSamePolicy ==
    (last.op = "With" /\ ReachesUnknown(last.fields, FirstPanic(last.fields))) =>
        Reaction("With", last) = Reaction("Write", WriteOf(last.core, arg.ent, last.fields))

\* a With that panicked on a field of unknown kind that follows a good field
C9_Witness ==
    /\ last.op = "With"
    /\ Len(last.fields) = 2
    /\ last.fields[1].Type = "Int64Type"
    /\ last.fields[2].Type = "UnknownType"
    /\ last.panic = ErrUnknownField

RECURSIVE Propagates(_)
\* whether a callback, and every callback it hands on, returns the error of
\* a failing append or add as soon as it gets it
Propagates(m) ==
    \A i \in 1 .. Len(m.ops) :
        "check" \in DOMAIN m.ops[i] => (m.ops[i].check /\ Propagates(m.ops[i].m))

AllPropagate(fields) ==
    \A i \in 1 .. Len(fields) :
        fields[i].Type \in MarshalerTypes => Propagates(fields[i].Interface)

\* what the last call gave its caller: the error of Write, the panic of With
Outcome == IF last.op = "With" THEN last.panic ELSE last.err

\* the entries of the log that encode something
Encodings == {"field", "add", "append", "AppendArray", "OpenNamespace", "namespace", "unknown"}

\* the first error of the log is what the call gave its caller, and nothing
\* was encoded after it
FirstErrorFirst ==
    FirstErrorAt(last.log) # 0 =>
        /\ Outcome = last.log[FirstErrorAt(last.log)].err
        /\ \A i \in (FirstErrorAt(last.log) + 1) .. Len(last.log) :
              last.log[i].ev \notin Encodings

IsPrefix(s, t) == Len(s) <= Len(t) /\ SubSeq(t, 1, Len(s)) = s

\* the event of a Write of the first k fields of the last call
EventOfFirst(k) ==
    zeroZap_Write(z[last.core].Logger, last.entry, SubSeq(last.fields, 1, k), flags).evt

\* C10 (as amended): a proxy reports to its caller exactly the error its
\* callback returned: the callback's own error, or the error of an append or
\* add, at any depth, that every callback on the way returned when it got
\* it.  That error is carried up to the top-level Write, which returns it
\* (With panics with it); what was written before it stays in the
\* accumulator and nothing after the failing call is encoded.  The error of
\* an append or add that a callback does not return is not reported.
C10_ErrorPropagation ==
    last.op \in {"Write", "With"} =>
        /\ \A i \in 1 .. Len(last.log) :
              last.log[i].ev \in {"arrayProxy", "objectProxy"} =>
                  /\ i > 1
                  /\ last.log[i - 1].ev = "return"
                  /\ last.log[i].err = last.log[i - 1].err
        /\ AllPropagate(last.fields) => FirstErrorFirst
        /\ last.op = "Write" =>
              /\ last.err = FirstReported(last.fields, Live(last.core, last.entry))
              /\ \A k \in 0 .. Len(last.fields) :
                    (/\ ~HasMarker(SubSeq(last.fields, 1, k))
                     /\ FirstReported(SubSeq(last.fields, 1, k), TRUE) = NoErr)
                        => IsPrefix(EventOfFirst(k).buf, last.evt.buf)
        /\ last.op = "With" =>
              /\ last.panic = FirstPanic(last.fields)
              /\ last.panic # NoErr => last.newcore = 0

\* C10 as stated: if the callback returns an error or any append or add made
\* through a proxy fails, at any depth, that first error reaches the
\* top-level call and nothing after the failing call is encoded.
C10_ClaimedAnyFailure ==
    last.op \in {"Write", "With"} => FirstErrorFirst

\* an object callback returned the error of an array it added, whose callback
\* returned the error of a nested array: Write returns it, the field written
\* before it is in the event and the field after it was not encoded
C10_Witness ==
    /\ last.op = "Write"
    /\ last.fields = <<Object("obj", mDeep(TRUE)), Int64("a", 1)>>
    /\ last.err = ErrNestedArray
    /\ \E i \in 1 .. Len(last.evt.buf) : last.evt.buf[i] = Tok("int", "x", "", 1)
    /\ \A i \in 1 .. Len(last.evt.buf) : last.evt.buf[i].k # "a"
    /\ last.lines = <<>>

(***************************************************************************)
(* Properties: namespaces opened through the object proxy                  *)
(***************************************************************************)
RECURSIVE Unwinds(_, _, _)
\* the log from its i-th entry on, open being the namespaces opened and not
\* yet attached, the innermost last: an attach comes right after the return
\* of a callback has reached its proxy, or after another attach; it attaches
\* the innermost open namespace; it is followed by the attach of the next
\* namespace of the same proxy, if there is one; and at the end no namespace
\* is left open
Unwinds(log, i, open) ==
    IF i > Len(log) THEN open = <<>>
    ELSE IF log[i].ev = "OpenNamespace"
    THEN Unwinds(log, i + 1, Append(open, [key |-> log[i].key, depth |-> log[i].m]))
    ELSE IF log[i].ev = "finish"
    THEN /\ open # <<>>
         /\ open[Len(open)] = [key |-> log[i].key, depth |-> log[i].m + 1]
         /\ i > 1
         /\ log[i - 1].ev \in {"objectProxy", "finish"}
         /\ log[i].m > 0 => (i < Len(log) /\ log[i + 1].ev = "finish")
         /\ Unwinds(log, i + 1, SubSeq(open, 1, Len(open) - 1))
    ELSE Unwinds(log, i + 1, open)

\* whether t holds s as a run of consecutive entries
Holds(t, s) ==
    \E k \in 0 .. (Len(t) - Len(s)) : SubSeq(t, k + 1, k + Len(s)) = s

\* a callback that only adds integers and opens namespaces
IsPlain(m) == \A i \in 1 .. Len(m.ops) : m.ops[i].op \in {"AddInt", "OpenNamespace"}

IsOpen(o) == o.op = "OpenNamespace"

\* what a plain callback leaves in the event it was given: its adds in order,
\* an object opened at each OpenNamespace, all of them closed at the end
PlainObject(m) ==
    [i \in 1 .. Len(m.ops) |->
        IF IsOpen(m.ops[i]) THEN OpenObj(m.ops[i].key)
        ELSE Tok("int", m.ops[i].key, "", m.ops[i].i)]
      \o [i \in 1 .. Len(SelectSeq(m.ops, IsOpen)) |-> CloseObj]

\* the accumulator the last call filled: the event of Write, the context of With
Accumulated == IF last.op = "With" THEN last.ctx ELSE last.evt.buf

\* whether the callback of the i-th field of the last call has run
HasRun(i) ==
    /\ \A j \in 1 .. (i - 1) :
          /\ last.fields[j].Type \in KnownTypes \ {"NamespaceType"}
          /\ FieldError(last.fields[j]) = NoErr
    /\ last.op = "Write" => last.evt.live

\* C11: in the object proxy, OpenNamespace sends every later add of that
\* proxy into a fresh nested accumulator; when the marshaler callback
\* returns, with or without an error, every namespace opened during the
\* callback is attached to its parent under its key exactly once, the
\* innermost first and the outermost last into the original event, and
\* nothing is attached before the callback returns.
C11_OpenNamespace ==
    last.op \in {"Write", "With"} =>
        /\ Unwinds(last.log, 1, <<>>)
        /\ (last.op = "Write" /\ last.evt.live
                /\ last.fields = <<Object("obj", mNestedSpaces)>>) =>
              last.evt.buf =
                  <<Tok("str", "level", "info", 0), OpenObj("obj"),
                    OpenObj("p"),
                    OpenObj("o"), Tok("int", "x", "", 1),
                    OpenObj("n1"), Tok("int", "y", "", 2),
                    OpenObj("n2"), Tok("int", "w", "", 3),
                    CloseObj, CloseObj, CloseObj,
                    Tok("int", "z", "", 5), CloseObj, CloseObj>>
        /\ \A i \in 1 .. Len(last.fields) :
              (/\ last.fields[i].Type \in {"ObjectMarshalerType", "InlineMarshalerType"}
               /\ IsPlain(last.fields[i].Interface)
               /\ HasRun(i))
                  => Holds(Accumulated,
                           IF last.fields[i].Type = "ObjectMarshalerType"
                           THEN <<OpenObj(last.fields[i].Key)>>
                                    \o PlainObject(last.fields[i].Interface)
                                    \o <<CloseObj>>
                           ELSE PlainObject(last.fields[i].Interface))

\* a Write whose object callback opened a namespace and returned an error:
\* the namespace is in the event, inside the object, and no line is emitted
C11_Witness ==
    /\ last.op = "Write"
    /\ last.fields = <<Object("obj", mSpacesFails)>>
    /\ last.err = ErrCallback
    /\ last.lines = <<>>
    /\ last.evt.buf =
          <<Tok("str", "level", "info", 0), OpenObj("obj"), Tok("int", "x", "", 1),
            OpenObj("n1"), Tok("int", "y", "", 2), CloseObj, CloseObj>>

====
